---- MODULE Spec2Model ----
(***************************************************************************)
(* Model of pkg/ccl/backupccl/split_and_scatter_processor.go:               *)
(* splitAndScatterProcessor.Run (the Emitter and the background goroutine), *)
(* runSplitAndScatter (the Dispatcher and the two Workers), the live and   *)
(* no-op splitAndScatterer, and routingDatumsForNode.                      *)
(*                                                                         *)
(* Go indexes from 0, TLA+ sequences from 1: chunk i of the source is      *)
(* chunk i+1 here.  An entry is identified by its Span.Key; keys are the   *)
(* consecutive integers 1..numEntries in input order.                      *)
(***************************************************************************)
EXTENDS Integers, Sequences, FiniteSets, Bags, TLC

\* ---- bounds -------------------------------------------------------------
MaxEntries == 3
MaxChunks == 3
MaxNodeID == 1
MaxTokenNodeID == 120

\* ---- program constants --------------------------------------------------
splitScatterWorkers == 2

VARIABLES
  spec,                \* ssp.spec: [Chunks |-> sequence of [Entries |-> ...]]
  scatterer,           \* ssp.scatterer: which implementation, and its fields
  parentDone,          \* the context handed to Run has been cancelled
  ctxDone,             \* the context the Dispatcher and Workers select on
  g,                   \* ctxgroup state: [err |-> first recorded error]
  importSpanChunksCh,  \* unbuffered work queue: [closed |-> BOOLEAN]
  doneScatterCh,       \* buffered completion queue: [buf, cap, closed]
  dispatcher,          \* [pc, i, sc]
  worker,              \* bag of Worker states [pc, importSpanChunk, i]
  bgPc,                \* position of the goroutine of Run, lines 242-248
  err,                 \* the variable err of Run, line 236
  emitter,             \* [pc, broke]
  routingDatumCache,   \* set of <<nodeID, datum>> pairs, line 234
  derived,             \* the NodeIDs line 261 derived a token for, in order
  output,              \* everything pushed to ssp.output, in order
  dispatcherLog,       \* the Dispatcher's calls and hand-overs, in order
  workerCalls,         \* the calls the Workers have issued
  rewritten,           \* keys rewriteBackupSpanKey is known to accept
  returned,            \* the non-nil errors the tasks returned, in order
  tokA, tokB, tokOut   \* inputs and results of the routing token derivation

pipeVars ==
  <<spec, scatterer, parentDone, ctxDone, g, importSpanChunksCh,
    doneScatterCh, dispatcher, worker, bgPc, err, emitter, routingDatumCache,
    derived, output, dispatcherLog, workerCalls, rewritten, returned>>
tokVars == <<tokA, tokB, tokOut>>
vars == <<pipeVars, tokVars>>


\* ---- errors -------------------------------------------------------------
NoErr == <<>>
ctxErr == <<"context canceled">>
AssertionFailed == <<"assertion failed">>
RewriteErr(key) == <<"rewrite", key>>
SplitErr(key) == <<"splitting key", key>>
MarshalErr(key) == <<"marshal", key>>

\* ---- bytes and keys -----------------------------------------------------
\* roachpb.Key.Next: the immediate successor of a key appends a zero byte.
KeyNext(k) == Append(k, 0)

\* bytes.Compare(a, b) < 0
BytesLess(a, b) ==
  \E i \in 1 .. (Len(b)) :
     /\ \A j \in 1 .. (i - 1) : j <= Len(a) /\ a[j] = b[j]
     /\ i - 1 <= Len(a)
     /\ (i > Len(a) \/ a[i] < b[i])

BytesLessEq(a, b) == a = b \/ BytesLess(a, b)

\* fmt.Sprintf("%d", n) as ASCII bytes
RECURSIVE Decimal(_)
Decimal(n) ==
  IF n < 0 THEN <<45>> \o Decimal(0 - n)
  ELSE IF n < 10 THEN <<48 + n>>
  ELSE Decimal(n \div 10) \o <<48 + (n % 10)>>

\* "node" as ASCII bytes
NodePrefix == <<110, 111, 100, 101>>

routingDatumsForNodeNoNext(nodeID) ==
  LET routingBytes == NodePrefix \o Decimal(nodeID)
  IN  <<routingBytes, routingBytes>>

routingDatumsForNodePrefixEnd(nodeID) ==
  LET routingBytes == NodePrefix \o Decimal(nodeID)
  IN  <<routingBytes,
        [routingBytes EXCEPT ![Len(routingBytes)] = @ + 1]>>

\* lines 360-365
routingDatumsForNode(nodeID) ==
  LET routingBytes == NodePrefix \o Decimal(nodeID)
  IN  <<routingBytes, KeyNext(routingBytes)>>

\* ---- the input ----------------------------------------------------------
Entry(k) == [Span |-> [Key |-> k, EndKey |-> k + 1]]

RECURSIVE SumTo(_, _)
SumTo(sizes, n) == IF n = 0 THEN 0 ELSE SumTo(sizes, n - 1) + sizes[n]

MakeChunks(sizes) ==
  [c \in 1 .. Len(sizes) |->
     [Entries |-> [j \in 1 .. sizes[c] |-> Entry(SumTo(sizes, c - 1) + j)]]]

\* every list of at most MaxChunks non-empty chunks with at most MaxEntries
\* entries in all
ChunkSizes ==
  {s \in UNION {[1 .. n -> 1 .. MaxEntries] : n \in 0 .. MaxChunks} :
     SumTo(s, Len(s)) <= MaxEntries}

Scatterers ==
  {[kind |-> "noop", db |-> FALSE, kr |-> FALSE]} \cup
  {[kind |-> "db", db |-> d, kr |-> k] : d \in BOOLEAN, k \in BOOLEAN}

numEntriesCountsChunks(chunks) == Len(chunks)

\* lines 226-229
RECURSIVE numEntriesUpTo(_, _)
numEntriesUpTo(chunks, n) ==
  IF n = 0 THEN 0 ELSE numEntriesUpTo(chunks, n - 1) + Len(chunks[n].Entries)
numEntries(chunks) == numEntriesUpTo(chunks, Len(chunks))

NoChunk == [destination |-> 0, entries |-> <<>>]

DispatcherAtOffByOne(chunks, i) ==
  [pc |-> IF i > Len(chunks) THEN "end"
          ELSE IF i + 2 <= Len(chunks) THEN "split" ELSE "scatter",
   i |-> i, sc |-> NoChunk]

\* lines 292-294: the position of the Dispatcher at the top of iteration i:
\* the loop is over, or the chunk has a successor to split off, or it is
\* the last one and is scattered at once
DispatcherAt(chunks, i) ==
  [pc |-> IF i > Len(chunks) THEN "end"
          ELSE IF i + 1 <= Len(chunks) THEN "split" ELSE "scatter",
   i |-> i, sc |-> NoChunk]

scatterKeyOfLastEntry(importSpanChunk) ==
  importSpanChunk.Entries[Len(importSpanChunk.Entries)].Span.Key

\* line 293
scatterKeyOf(importSpanChunk) == importSpanChunk.Entries[1].Span.Key

PipeInit ==
  /\ spec \in {[Chunks |-> MakeChunks(s)] : s \in ChunkSizes}
  /\ scatterer \in Scatterers
  /\ parentDone = FALSE
  /\ ctxDone = FALSE
  /\ g = [err |-> NoErr]
  /\ importSpanChunksCh = [closed |-> FALSE]
  /\ doneScatterCh = [buf |-> <<>>, cap |-> numEntries(spec.Chunks),
                      closed |-> FALSE]
  /\ dispatcher = DispatcherAt(spec.Chunks, 1)
  /\ worker = [w \in {[pc |-> "recv", importSpanChunk |-> NoChunk, i |-> 1]}
                 |-> splitScatterWorkers]
  /\ bgPc = "run"
  /\ err = NoErr
  /\ emitter = [pc |-> "loop", broke |-> FALSE]
  /\ routingDatumCache = {}
  /\ derived = <<>>
  /\ output = <<>>
  /\ dispatcherLog = <<>>
  /\ workerCalls = {}
  /\ rewritten = {}
  /\ returned = <<>>

\* no routing token derivation is under study
TokIdle == tokA = 0 /\ tokB = 0 /\ tokOut = <<>>

Init == PipeInit /\ TokIdle

\* ---- the Range Preparer -------------------------------------------------
\* An outcome of a call: the error returned, the NodeID returned, whether
\* the key rewrite succeeded, and what the cluster request did.
Outcome(e, n, rw, res) == [err |-> e, node |-> n, rw |-> rw, res |-> res]

noopSplit(key) == {Outcome(NoErr, 0, FALSE, "noop")}

noopScatter(key) == {Outcome(NoErr, 0, FALSE, "noop")}

\* dbSplitAndScatterer.split.  rewriteBackupSpanKey is a function of the
\* key: it cannot fail on a key it has accepted before.
dbSplit(s, key) ==
  IF ~s.kr THEN {Outcome(AssertionFailed, 0, FALSE, "none")}
  ELSE IF ~s.db THEN {Outcome(AssertionFailed, 0, FALSE, "none")}
  ELSE (IF key \in rewritten THEN {}
        ELSE {Outcome(RewriteErr(key), 0, FALSE, "none")})
       \cup {Outcome(SplitErr(key), 0, TRUE, "failed"),
             Outcome(NoErr, 0, TRUE, "ok")}

dbScatterFailsRun(s, key) ==
  IF ~s.kr THEN {Outcome(AssertionFailed, 0, FALSE, "none")}
  ELSE IF ~s.db THEN {Outcome(AssertionFailed, 0, FALSE, "none")}
  ELSE {Outcome(SplitErr(key), 0, TRUE, "failed"),
        Outcome(NoErr, 1, TRUE, "ok")}

\* The RangeInfos of an AdminScatterResponse, as the NodeIDs of their leases
\* (0 when the lease is not populated).
ScatterResponses == {<<>>} \cup {<<n>> : n \in 0 .. MaxNodeID}

findDestination(res) == IF Len(res) > 0 THEN res[1] ELSE 0

\* dbSplitAndScatterer.scatter
dbScatter(s, key) ==
  IF ~s.kr THEN {Outcome(AssertionFailed, 0, FALSE, "none")}
  ELSE IF ~s.db THEN {Outcome(AssertionFailed, 0, FALSE, "none")}
  ELSE (IF key \in rewritten THEN {}
        ELSE {Outcome(RewriteErr(key), 0, FALSE, "none")})
       \cup {Outcome(NoErr, 0, TRUE, "failed")}
       \cup {Outcome(NoErr, findDestination(r), TRUE, "ok") :
               r \in ScatterResponses}

split(s, key) == IF s.kind = "noop" THEN noopSplit(key) ELSE dbSplit(s, key)

scatter(s, key) ==
  IF s.kind = "noop" THEN noopScatter(key) ELSE dbScatter(s, key)

\* A logged event: a split or scatter call with its outcome, or (op "send")
\* the hand-over of the chunk starting at key to a Worker.
Call(op, key, o, i) ==
  [op |-> op, key |-> key, err |-> o.err, node |-> o.node, res |-> o.res,
   i |-> i]

Logged(c) ==
  dispatcherLog' = Append(dispatcherLog, c) /\ UNCHANGED workerCalls

WorkerCalled(c) ==
  workerCalls' = workerCalls \cup {c} /\ UNCHANGED dispatcherLog

Rewrote(key, o) ==
  rewritten' = IF o.rw THEN rewritten \cup {key} ELSE rewritten

\* ---- the task group -----------------------------------------------------
\* A task of the group returns e: the first non-nil error is recorded and
\* cancels the group's context.
GroupReturn(e) ==
  /\ g' = IF e # NoErr /\ g.err = NoErr THEN [err |-> e] ELSE g
  /\ ctxDone' = (ctxDone \/ (e # NoErr /\ g.err = NoErr))
  /\ returned' = IF e # NoErr THEN Append(returned, e) ELSE returned

\* ---- the Dispatcher, lines 288-319 --------------------------------------
Chunks == spec.Chunks

DispatcherReturnLeavesOpen(e) ==
  /\ dispatcher' = [dispatcher EXCEPT !.pc = "done"]
  /\ importSpanChunksCh' = importSpanChunksCh
  /\ GroupReturn(e)

\* return e, with the deferred close(importSpanChunksCh)
DispatcherReturn(e) ==
  /\ dispatcher' = [dispatcher EXCEPT !.pc = "done"]
  /\ importSpanChunksCh' = [closed |-> TRUE]
  /\ GroupReturn(e)

\* the range loop is exhausted: return nil
DispatcherEnd ==
  /\ dispatcher.pc = "end"
  /\ DispatcherReturn(NoErr)
  /\ UNCHANGED <<tokVars, spec, scatterer, parentDone, doneScatterCh, worker,
                 bgPc, err, emitter, routingDatumCache, derived, output,
                 dispatcherLog, workerCalls, rewritten>>

DispatcherSplitIgnoresErr ==
  /\ dispatcher.pc = "split"
  /\ LET splitKey == Chunks[dispatcher.i + 1].Entries[1].Span.Key
     IN  \E o \in split(scatterer, splitKey) :
           /\ Logged(Call("split", splitKey, o, dispatcher.i))
           /\ Rewrote(splitKey, o)
           /\ dispatcher' = [dispatcher EXCEPT !.pc = "scatter"]
           /\ UNCHANGED <<g, returned, ctxDone, importSpanChunksCh>>
  /\ UNCHANGED <<tokVars, spec, scatterer, parentDone, doneScatterCh, worker,
                 bgPc, err, emitter, routingDatumCache, derived, output>>

\* lines 294-301: split at the start of the next chunk
DispatcherSplit ==
  /\ dispatcher.pc = "split"
  /\ LET splitKey == Chunks[dispatcher.i + 1].Entries[1].Span.Key
     IN  \E o \in split(scatterer, splitKey) :
           /\ Logged(Call("split", splitKey, o, dispatcher.i))
           /\ Rewrote(splitKey, o)
           /\ IF o.err # NoErr
                THEN DispatcherReturn(o.err)
                ELSE /\ dispatcher' = [dispatcher EXCEPT !.pc = "scatter"]
                     /\ UNCHANGED <<g, returned, ctxDone, importSpanChunksCh>>
  /\ UNCHANGED <<tokVars, spec, scatterer, parentDone, doneScatterCh, worker,
                 bgPc, err, emitter, routingDatumCache, derived, output>>

\* lines 307-310
scatteredChunk(chunkDestination, importSpanChunk) ==
  [destination |-> chunkDestination, entries |-> importSpanChunk.Entries]

\* lines 302-310
DispatcherScatter ==
  /\ dispatcher.pc = "scatter"
  /\ LET importSpanChunk == Chunks[dispatcher.i]
         scatterKey == scatterKeyOf(importSpanChunk)
     IN  \E o \in scatter(scatterer, scatterKey) :
           /\ Logged(Call("scatter", scatterKey, o, dispatcher.i))
           /\ Rewrote(scatterKey, o)
           /\ IF o.err # NoErr
                THEN DispatcherReturn(o.err)
                ELSE /\ dispatcher' =
                          [dispatcher EXCEPT
                             !.pc = "send",
                             !.sc = scatteredChunk(o.node, importSpanChunk)]
                     /\ UNCHANGED <<g, returned, ctxDone, importSpanChunksCh>>
  /\ UNCHANGED <<tokVars, spec, scatterer, parentDone, doneScatterCh, worker,
                 bgPc, err, emitter, routingDatumCache, derived, output>>

\* lines 313-314: the select takes the ctx.Done() case
DispatcherCancelled ==
  /\ dispatcher.pc = "send"
  /\ ctxDone
  /\ DispatcherReturn(ctxErr)
  /\ UNCHANGED <<tokVars, spec, scatterer, parentDone, doneScatterCh, worker,
                 bgPc, err, emitter, routingDatumCache, derived, output,
                 dispatcherLog, workerCalls, rewritten>>

\* lines 323-325: the Workers run one closure that does not capture the loop
\* variable, so they are told apart by their state only: worker is the bag
\* of their states, Workers the states some Worker is in, and a step of a
\* Worker in state w replaces one copy of w
Workers == BagToSet(worker)

WorkerMoved(w, next) == (worker (-) SetToBag({w})) (+) SetToBag({next})

WorkerAtNeverSplits(sc, i) ==
  IF i > Len(sc.entries)
    THEN [pc |-> "recv", importSpanChunk |-> NoChunk, i |-> 1]
    ELSE [pc |-> "publish", importSpanChunk |-> sc, i |-> i]

WorkerAtSkipsLast(sc, i) ==
  IF i >= Len(sc.entries)
    THEN [pc |-> "recv", importSpanChunk |-> NoChunk, i |-> 1]
    ELSE [pc |-> IF i + 1 <= Len(sc.entries) THEN "split" ELSE "publish",
          importSpanChunk |-> sc, i |-> i]

\* lines 326-333: the position of a Worker on entry i of its chunk: the
\* chunk is over, or the entry has a successor to split off, or it is the
\* last one and is published at once
WorkerAt(sc, i) ==
  IF i > Len(sc.entries)
    THEN [pc |-> "recv", importSpanChunk |-> NoChunk, i |-> 1]
    ELSE [pc |-> IF i + 1 <= Len(sc.entries) THEN "split" ELSE "publish",
          importSpanChunk |-> sc, i |-> i]

ReceivedByAll(w, sc) ==
  (worker (-) [x \in {w} |-> CopiesIn(w, worker)])
    (+) [x \in {WorkerAt(sc, 1)} |-> CopiesIn(w, worker)]

\* line 326: one Worker waiting in state w takes the chunk off the work
\* queue and starts on its first entry
Received(w, sc) == WorkerMoved(w, WorkerAt(sc, 1))

\* line 315 with line 326: the unbuffered send completes as Worker w
\* receives the chunk
SendChunk ==
  \E w \in Workers :
    /\ dispatcher.pc = "send"
    /\ w.pc = "recv"
    /\ worker' = Received(w, dispatcher.sc)
    /\ dispatcher' = DispatcherAt(Chunks, dispatcher.i + 1)
    /\ Logged([op |-> "send", key |-> dispatcher.sc.entries[1].Span.Key,
               err |-> NoErr, node |-> dispatcher.sc.destination,
               res |-> "received", i |-> dispatcher.i])
    /\ UNCHANGED <<tokVars, spec, scatterer, parentDone, ctxDone, g, returned,
                   importSpanChunksCh, doneScatterCh, bgPc, err, emitter,
                   routingDatumCache, derived, output, rewritten>>

\* ---- the Workers, lines 324-355 -----------------------------------------
WorkerReturn(w, e) ==
  /\ worker' = WorkerMoved(w, [pc |-> "done", importSpanChunk |-> NoChunk,
                                i |-> 1])
  /\ GroupReturn(e)

\* line 326: the work queue is closed, the range loop ends, return nil
WorkerEnd ==
  \E w \in Workers :
    /\ w.pc = "recv"
    /\ importSpanChunksCh.closed
    /\ WorkerReturn(w, NoErr)
    /\ UNCHANGED <<tokVars, spec, scatterer, parentDone, importSpanChunksCh,
                   doneScatterCh, dispatcher, bgPc, err, emitter,
                   routingDatumCache, derived, output, dispatcherLog,
                   workerCalls, rewritten>>

\* lines 333-339: split at the next entry of the chunk
WorkerSplit ==
  \E w \in Workers :
    /\ w.pc = "split"
    /\ LET entries == w.importSpanChunk.entries
           nextChunkIdx == w.i + 1
       IN  /\ \E o \in split(scatterer, entries[nextChunkIdx].Span.Key) :
                /\ WorkerCalled(Call("split", entries[nextChunkIdx].Span.Key, o,
                                       w.i))
                /\ Rewrote(entries[nextChunkIdx].Span.Key, o)
                /\ IF o.err # NoErr
                     THEN WorkerReturn(w, o.err)
                     ELSE /\ worker' =
                               WorkerMoved(w, [w EXCEPT !.pc = "publish"])
                          /\ UNCHANGED <<g, returned, ctxDone>>
    /\ UNCHANGED <<tokVars, spec, scatterer, parentDone, importSpanChunksCh,
                   doneScatterCh, dispatcher, bgPc, err, emitter,
                   routingDatumCache, derived, output>>

entryNodeReversed(importSpanChunk, i) ==
  [entry |-> importSpanChunk.entries[Len(importSpanChunk.entries) + 1 - i],
   node |-> importSpanChunk.destination]

entryNodeOfNoNode(importSpanChunk, i) ==
  [entry |-> importSpanChunk.entries[i], node |-> 0]

\* lines 327, 341-344
entryNode(importSpanChunk, i) ==
  [entry |-> importSpanChunk.entries[i], node |-> importSpanChunk.destination]

\* line 349: the select takes the send case
WorkerPublish ==
  \E w \in Workers :
    /\ w.pc = "publish"
    /\ ~doneScatterCh.closed
    /\ Len(doneScatterCh.buf) < doneScatterCh.cap
    /\ doneScatterCh' =
         [doneScatterCh EXCEPT
            !.buf = Append(@, entryNode(w.importSpanChunk, w.i))]
    /\ worker' = WorkerMoved(w, WorkerAt(w.importSpanChunk, w.i + 1))
    /\ UNCHANGED <<tokVars, spec, scatterer, parentDone, ctxDone, g, returned,
                   importSpanChunksCh, dispatcher, bgPc, err, emitter,
                   routingDatumCache, derived, output, dispatcherLog,
                   workerCalls, rewritten>>

\* lines 347-348: the select takes the ctx.Done() case
WorkerCancelled ==
  \E w \in Workers :
    /\ w.pc = "publish"
    /\ ctxDone
    /\ WorkerReturn(w, ctxErr)
    /\ UNCHANGED <<tokVars, spec, scatterer, parentDone, importSpanChunksCh,
                   doneScatterCh, dispatcher, bgPc, err, emitter,
                   routingDatumCache, derived, output, dispatcherLog,
                   workerCalls, rewritten>>

\* ---- the goroutine of Run, lines 242-248 --------------------------------
BackgroundWaitForDispatcher ==
  /\ bgPc = "run"
  /\ dispatcher.pc = "done"
  /\ err' = g.err
  /\ bgPc' = "returned"
  /\ UNCHANGED <<tokVars, spec, scatterer, parentDone, ctxDone, g, returned,
                 importSpanChunksCh, doneScatterCh, dispatcher, worker,
                 emitter, routingDatumCache, derived, output, dispatcherLog,
                 workerCalls, rewritten>>

\* line 357 and line 244: g.Wait() returns once the three tasks have
\* returned, and its result is stored in err
BackgroundWait ==
  /\ bgPc = "run"
  /\ dispatcher.pc = "done"
  /\ \A w \in Workers : w.pc = "done"
  /\ err' = g.err
  /\ bgPc' = "returned"
  /\ UNCHANGED <<tokVars, spec, scatterer, parentDone, ctxDone, g, returned,
                 importSpanChunksCh, doneScatterCh, dispatcher, worker,
                 emitter, routingDatumCache, derived, output, dispatcherLog,
                 workerCalls, rewritten>>

\* line 243: the deferred close(doneScatterCh)
BackgroundClose ==
  /\ bgPc = "returned"
  /\ bgPc' = "closed"
  /\ doneScatterCh' = [doneScatterCh EXCEPT !.closed = TRUE]
  /\ UNCHANGED <<tokVars, spec, scatterer, parentDone, ctxDone, g, returned,
                 importSpanChunksCh, dispatcher, worker, err, emitter,
                 routingDatumCache, derived, output, dispatcherLog,
                 workerCalls, rewritten>>

\* ---- the Emitter, lines 250-276 -----------------------------------------
Row(routingDatum, entryBytes) ==
  [kind |-> "row", routingDatum |-> routingDatum, entryBytes |-> entryBytes,
   Err |-> NoErr]

Meta(e) ==
  [kind |-> "meta", routingDatum |-> <<>>, entryBytes |-> <<>>, Err |-> e]

ProducerDone ==
  [kind |-> "ProducerDone", routingDatum |-> <<>>, entryBytes |-> <<>>,
   Err |-> NoErr]

\* protoutil.Marshal of a RestoreSpanEntry: its fields in order
Marshal(entry) == <<entry.Span.Key, entry.Span.EndKey>>

Unmarshal(entryBytes) ==
  [Span |-> [Key |-> entryBytes[1], EndKey |-> entryBytes[2]]]

CachedNever(node) == FALSE

\* line 259: the lookup routingDatumCache[scatteredEntry.node] finds an entry
Cached(node) == \E p \in routingDatumCache : p[1] = node

CacheGet(node) == (CHOOSE p \in routingDatumCache : p[1] = node)[2]

\* lines 250-252, 258-269: receive an entry, serialize it, push its row
EmitRow ==
  /\ emitter.pc = "loop"
  /\ doneScatterCh.buf # <<>>
  /\ LET scatteredEntry == Head(doneScatterCh.buf)
         entryBytes == Marshal(scatteredEntry.entry)
         routingDatum == IF Cached(scatteredEntry.node)
                           THEN CacheGet(scatteredEntry.node)
                           ELSE routingDatumsForNode(scatteredEntry.node)[1]
     IN  /\ routingDatumCache' =
              routingDatumCache \cup {<<scatteredEntry.node, routingDatum>>}
         /\ derived' = IF Cached(scatteredEntry.node)
                        THEN derived
                        ELSE Append(derived, scatteredEntry.node)
         /\ output' = Append(output, Row(routingDatum, entryBytes))
  /\ doneScatterCh' = [doneScatterCh EXCEPT !.buf = Tail(@)]
  /\ UNCHANGED <<tokVars, spec, scatterer, parentDone, ctxDone, g, returned,
                 importSpanChunksCh, dispatcher, worker, bgPc, err, emitter,
                 dispatcherLog, workerCalls, rewritten>>

RunReturnDropsErr(out, broke) ==
  /\ output' = out \o <<ProducerDone>>
  /\ ctxDone' = TRUE
  /\ emitter' = [pc |-> "done", broke |-> broke]

\* What the read of err at line 272 can yield.  After the break of line 255
\* the Emitter has not observed the close of doneScatterCh, so the read is
\* not ordered after the write of line 244: it may or may not see it.
ReadErr(broke) ==
  IF broke /\ bgPc # "run" THEN {NoErr, err} ELSE {err}

\* lines 272-276 with the deferred calls of lines 238 and 224, after out has
\* been pushed: the error read from err is pushed, the context is
\* cancelled, the stream is marked complete
RunReturn(out, broke) ==
  /\ \E e \in ReadErr(broke) :
       output' = (IF e # NoErr THEN Append(out, Meta(e)) ELSE out)
                   \o <<ProducerDone>>
  /\ ctxDone' = TRUE
  /\ emitter' = [pc |-> "done", broke |-> broke]

\* lines 250-256 and 272-276: the entry fails to serialize, the loop is
\* left, Run returns
EmitMarshalError ==
  /\ emitter.pc = "loop"
  /\ doneScatterCh.buf # <<>>
  /\ RunReturn(Append(output,
                 Meta(MarshalErr(Head(doneScatterCh.buf).entry.Span.Key))),
               TRUE)
  /\ doneScatterCh' = [doneScatterCh EXCEPT !.buf = Tail(@)]
  /\ UNCHANGED <<tokVars, spec, scatterer, parentDone, g, returned,
                 importSpanChunksCh, dispatcher, worker, bgPc, err,
                 routingDatumCache, derived, dispatcherLog, workerCalls,
                 rewritten>>

\* lines 250 and 272-276: the completion queue is closed and drained, the
\* loop ends, Run returns
EmitDrained ==
  /\ emitter.pc = "loop"
  /\ doneScatterCh.buf = <<>>
  /\ doneScatterCh.closed
  /\ RunReturn(output, FALSE)
  /\ UNCHANGED <<tokVars, spec, scatterer, parentDone, g, returned,
                 importSpanChunksCh, doneScatterCh, dispatcher, worker, bgPc,
                 err, routingDatumCache, derived, dispatcherLog, workerCalls,
                 rewritten>>

\* ---- the environment ----------------------------------------------------
\* the context handed to Run is cancelled while Run is running
ExternalCancel ==
  /\ ~parentDone
  /\ emitter.pc # "done"
  /\ parentDone' = TRUE
  /\ ctxDone' = TRUE
  /\ UNCHANGED <<tokVars, spec, scatterer, g, returned, importSpanChunksCh,
                 doneScatterCh, dispatcher, worker, bgPc, err, emitter,
                 routingDatumCache, derived, output, dispatcherLog,
                 workerCalls, rewritten>>

Next ==
  \/ DispatcherEnd
  \/ DispatcherSplit
  \/ DispatcherScatter
  \/ DispatcherCancelled
  \/ SendChunk
  \/ WorkerEnd
  \/ WorkerSplit
  \/ WorkerPublish
  \/ WorkerCancelled
  \/ BackgroundWait
  \/ BackgroundClose
  \/ EmitRow
  \/ EmitMarshalError
  \/ EmitDrained
  \/ ExternalCancel

Spec == Init /\ [][Next]_vars

\* The Go scheduler keeps running every goroutine that can take a step: the
\* Dispatcher, the Workers, the goroutine of Run and the Emitter each get
\* their turn.  A select with two ready cases takes one of them.  Nothing
\* obliges the environment to cancel the context.
Fairness ==
  /\ WF_vars(DispatcherEnd)
  /\ WF_vars(DispatcherSplit)
  /\ WF_vars(DispatcherScatter)
  /\ WF_vars(DispatcherCancelled \/ SendChunk)
  /\ WF_vars(WorkerEnd)
  /\ WF_vars(WorkerSplit)
  /\ WF_vars(WorkerPublish \/ WorkerCancelled)
  /\ WF_vars(BackgroundWait)
  /\ WF_vars(BackgroundClose)
  /\ WF_vars(EmitRow \/ EmitMarshalError)
  /\ WF_vars(EmitDrained)

FairSpec == Spec /\ Fairness

\* ---- the routing token derivation on its own ----------------------------
\* A processor that is given no chunks, and two NodeIDs to derive tokens for.
TokInit ==
  /\ PipeInit
  /\ spec = [Chunks |-> <<>>]
  /\ scatterer.kind = "noop"
  /\ tokA \in 0 .. MaxTokenNodeID
  /\ tokB \in 0 .. MaxTokenNodeID
  /\ tokOut = <<>>

\* lines 360-365 applied to both NodeIDs
TokDerive ==
  /\ tokOut = <<>>
  /\ tokOut' = <<routingDatumsForNode(tokA), routingDatumsForNode(tokB)>>
  /\ UNCHANGED <<tokA, tokB, pipeVars>>

TokNext ==
  \/ TokDerive

TokSpec == TokInit /\ [][TokNext]_vars

\* ---- vocabulary of the properties ---------------------------------------
ChunkIds == 1 .. Len(Chunks)

EntryKeys == 1 .. numEntries(Chunks)

LeadKey(c) == Chunks[c].Entries[1].Span.Key

KeysOfChunk(c) ==
  {Chunks[c].Entries[j].Span.Key : j \in 1 .. Len(Chunks[c].Entries)}

\* the chunk holding key k: the keys of the input ascend in input order, so
\* it is the chunk whose lead key is the last one not above k
ChunkOfKey(k) ==
  CHOOSE c \in ChunkIds :
     LeadKey(c) <= k /\ (c < Len(Chunks) => k < LeadKey(c + 1))

LogIdx == 1 .. Len(dispatcherLog)

RowIdx == {i \in 1 .. Len(output) : output[i].kind = "row"}

MetaIdx == {i \in 1 .. Len(output) : output[i].kind = "meta"}

DoneIdx == {i \in 1 .. Len(output) : output[i].kind = "ProducerDone"}

RowKey(i) == Unmarshal(output[i].entryBytes).Span.Key

RowsOfKey(k) == {i \in RowIdx : RowKey(i) = k}

StreamComplete == emitter.pc = "done"

DispatcherFailures == {p \in LogIdx : dispatcherLog[p].err # NoErr}

SomeCallFailed ==
  DispatcherFailures # {} \/ \E c \in workerCalls : c.err # NoErr

SomeSplitFailed ==
  \/ \E p \in DispatcherFailures : dispatcherLog[p].op = "split"
  \/ \E c \in workerCalls : c.op = "split" /\ c.err # NoErr

\* no split, scatter or serialization call failed, and nothing was cancelled
\* from outside
CleanRun == ~SomeCallFailed /\ ~emitter.broke /\ ~parentDone

\* the iteration (chunk) the Dispatcher was in when it issued call p
IterationOfCall(p) == dispatcherLog[p].i

\* the positions of the Dispatcher's scatter calls for chunk c
ScatterCalls(c) ==
  {p \in LogIdx : /\ dispatcherLog[p].op = "scatter"
                  /\ dispatcherLog[p].key = LeadKey(c)}

\* the NodeIDs the Dispatcher's scatter calls returned for chunk c
ScatterReturned(c) ==
  {dispatcherLog[p].node :
     p \in {q \in ScatterCalls(c) : dispatcherLog[q].err = NoErr}}

\* the chunks whose scatter request failed in the cluster
ScatterRequestFailed ==
  {c \in ChunkIds : \E p \in ScatterCalls(c) : dispatcherLog[p].res = "failed"}

\* ---- C1 -----------------------------------------------------------------
\* C1: in a run where no split, scatter or serialization call fails and
\* nothing is cancelled, once the stream is marked complete every input
\* entry has been pushed downstream as a row exactly once.
C1_ExactlyOnce ==
  (StreamComplete /\ CleanRun) =>
     \A k \in EntryKeys : Cardinality(RowsOfKey(k)) = 1

\* a clean complete run of the live preparer over three entries in several
\* chunks whose rows left in another order than the input order
C1_Witness ==
  /\ StreamComplete /\ CleanRun
  /\ scatterer.kind = "db"
  /\ Len(Chunks) >= 2 /\ numEntries(Chunks) = 3
  /\ \E i, j \in RowIdx : i < j /\ RowKey(i) > RowKey(j)

\* ---- C2 -----------------------------------------------------------------
\* event p is a scatter call that returned a NodeID for the chunk holding
\* the entry of key k: the chunk of the iteration the call was issued in
\* starts at or below k, and the next chunk above k
ScatterOfEntry(p, k) ==
  /\ dispatcherLog[p].op = "scatter"
  /\ dispatcherLog[p].err = NoErr
  /\ LeadKey(IterationOfCall(p)) <= k
  /\ IterationOfCall(p) < Len(Chunks) => k < LeadKey(IterationOfCall(p) + 1)

\* C2: every entry in the completion queue, and every row pushed, carries
\* exactly the NodeID the Dispatcher's scatter call returned for the chunk
\* of that entry (for a row: the start token of that NodeID).
C2_NodeOfChunk ==
  /\ \A j \in 1 .. Len(doneScatterCh.buf) :
       /\ \E p \in LogIdx :
            ScatterOfEntry(p, doneScatterCh.buf[j].entry.Span.Key)
       /\ \A p \in LogIdx :
            ScatterOfEntry(p, doneScatterCh.buf[j].entry.Span.Key)
              => dispatcherLog[p].node = doneScatterCh.buf[j].node
  /\ \A i \in 1 .. Len(output) :
       output[i].kind = "row" =>
          /\ \E p \in LogIdx : ScatterOfEntry(p, RowKey(i))
          /\ \A p \in LogIdx :
               ScatterOfEntry(p, RowKey(i))
                 => routingDatumsForNode(dispatcherLog[p].node)[1]
                      = output[i].routingDatum

\* both entries of a two-entry chunk scattered to node 1 are out as rows,
\* next to a row of a chunk scattered to node 0
C2_Witness ==
  \E c \in ChunkIds :
     /\ Len(Chunks[c].Entries) = 2
     /\ ScatterReturned(c) = {1}
     /\ \A k \in KeysOfChunk(c) : RowsOfKey(k) # {}
     /\ \E i \in RowIdx : output[i].routingDatum = routingDatumsForNode(0)[1]

\* ---- C3 -----------------------------------------------------------------
\* C3: a scatter whose relocation request fails returns NodeID 0 and no
\* error, the Dispatcher goes on to publish the chunk, and in a run with no
\* other failure the stream completes with no error message and with every
\* entry of that chunk pushed under the token of node 0.
C3_ScatterFailureSwallowed ==
  /\ \A p \in LogIdx :
       (dispatcherLog[p].op = "scatter" /\ dispatcherLog[p].res = "failed")
         => /\ dispatcherLog[p].err = NoErr
            /\ dispatcherLog[p].node = 0
            /\ (p = Len(dispatcherLog) /\ ~ctxDone) => dispatcher.pc = "send"
  /\ (StreamComplete /\ CleanRun) =>
       /\ MetaIdx = {}
       /\ \A c \in ScatterRequestFailed : \A k \in KeysOfChunk(c) :
            \E i \in RowsOfKey(k) :
               output[i].routingDatum = routingDatumsForNode(0)[1]

\* a complete clean run in which the scatter of a two-entry chunk failed
\* and another chunk went to node 1
C3_Witness ==
  /\ StreamComplete /\ CleanRun
  /\ \E c \in ScatterRequestFailed : Len(Chunks[c].Entries) = 2
  /\ \E c \in ChunkIds : ScatterReturned(c) = {1}
  /\ Cardinality(RowIdx) = 3

\* ---- C4 -----------------------------------------------------------------
\* C4: when a split call has failed and every entry serialized, the complete
\* stream holds exactly one error message, and it carries the first error a
\* task of the group returned.
C4_OneErrorOnSplitFailure ==
  (StreamComplete /\ SomeSplitFailed /\ ~emitter.broke) =>
     /\ Cardinality(MetaIdx) = 1
     /\ returned # <<>>
     /\ \A i \in MetaIdx : output[i].Err = Head(returned)

\* a complete run in which a Worker's split failed first and another task
\* then returned an error of its own
C4_Witness ==
  /\ StreamComplete /\ ~emitter.broke
  /\ Len(returned) >= 2
  /\ \E c \in workerCalls : c.err # NoErr /\ c.err = Head(returned)
  /\ Cardinality(MetaIdx) = 1

\* ---- C5 -----------------------------------------------------------------
\* C5: in every run at most one error message is pushed downstream, no row
\* follows a serialization failure, and the stream is marked complete at
\* most once, with nothing pushed after it.
C5_AtMostOneError ==
  /\ Cardinality(MetaIdx) <= 1
  /\ \A i \in MetaIdx : \A j \in RowIdx :
       output[i].Err[1] = "marshal" => j < i
  /\ Cardinality(DoneIdx) <= 1
  /\ \A i \in DoneIdx : i = Len(output)

\* ---- C6 -----------------------------------------------------------------

\* C6: once a split or scatter call of the Dispatcher has failed in
\* iteration i, the Dispatcher has returned and issues no further call,
\* and no chunk from i on is ever published, held by a Worker, queued or
\* emitted.
C6_NothingPastDispatcherFailure ==
  \A p \in DispatcherFailures :
     /\ p = Len(dispatcherLog)
     /\ dispatcher.pc = "done"
     /\ \A q \in LogIdx :
          dispatcherLog[q].op = "send"
            => ChunkOfKey(dispatcherLog[q].key) < IterationOfCall(p)
     /\ \A w \in Workers :
          \A j \in 1 .. Len(w.importSpanChunk.entries) :
             ChunkOfKey(w.importSpanChunk.entries[j].Span.Key)
               < IterationOfCall(p)
     /\ \A j \in 1 .. Len(doneScatterCh.buf) :
          ChunkOfKey(doneScatterCh.buf[j].entry.Span.Key) < IterationOfCall(p)
     /\ \A i \in RowIdx : ChunkOfKey(RowKey(i)) < IterationOfCall(p)

\* the Dispatcher's split failed in its second iteration, and the stream is
\* complete with the row of the first chunk in it
C6_Witness ==
  /\ StreamComplete
  /\ \E p \in DispatcherFailures :
       dispatcherLog[p].op = "split" /\ IterationOfCall(p) = 2
  /\ RowIdx # {}

\* ---- C7 -----------------------------------------------------------------
SplitsDone(k) ==
  {p \in LogIdx : /\ dispatcherLog[p].op = "split"
                  /\ dispatcherLog[p].key = k
                  /\ dispatcherLog[p].err = NoErr}

Sends(c) ==
  {p \in LogIdx : /\ dispatcherLog[p].op = "send"
                  /\ dispatcherLog[p].key = LeadKey(c)}

\* a step adds nothing to the Dispatcher's order of events, or adds one
\* event at its end that comes after the events C7 puts before it
DispatcherOrdered ==
  \/ dispatcherLog' = dispatcherLog
  \/ /\ Len(dispatcherLog') = Len(dispatcherLog) + 1
     /\ SubSeq(dispatcherLog', 1, Len(dispatcherLog)) = dispatcherLog
     /\ LET call == dispatcherLog'[Len(dispatcherLog')]
            c == call.i
        IN  /\ (call.op = "scatter" /\ c < Len(Chunks))
                 => SplitsDone(LeadKey(c + 1)) # {}
            /\ call.op = "send"
                 => \E q \in ScatterCalls(c) : dispatcherLog[q].err = NoErr
            /\ (call.op # "send" /\ c > 1) => Sends(c - 1) # {}
            /\ call.op = "send"
                 => \A q \in LogIdx :
                       dispatcherLog[q].op = "send"
                         => dispatcherLog[q].key < call.key

\* C7: in the Dispatcher's order of events, the split at the start of chunk
\* c+1 completes before the scatter of chunk c is issued, the scatter of
\* chunk c completes before chunk c is handed over, every call of iteration
\* c+1 comes after the hand-over of chunk c, and chunks are handed over in
\* input order.
C7_DispatcherOrder == [][DispatcherOrdered]_vars

\* three chunks have been split off, scattered and handed over
C7_Witness ==
  /\ Len(Chunks) = 3
  /\ Sends(3) # {}
  /\ SplitsDone(LeadKey(2)) # {} /\ SplitsDone(LeadKey(3)) # {}

\* ---- C8 -----------------------------------------------------------------
\* C8: no Worker calls scatter; the Dispatcher scatters only lead keys of
\* chunks, each at most once; and a clean complete run has scattered every
\* chunk exactly once.
C8_ScatterOncePerChunkLead ==
  /\ \A c \in workerCalls : c.op # "scatter"
  /\ \A p \in LogIdx :
       dispatcherLog[p].op = "scatter"
         => /\ \E c \in ChunkIds : dispatcherLog[p].key = LeadKey(c)
            /\ \A q \in 1 .. p - 1 :
                 ~(/\ dispatcherLog[q].op = "scatter"
                   /\ dispatcherLog[q].key = dispatcherLog[p].key)
  /\ (StreamComplete /\ CleanRun) =>
       \A c \in ChunkIds : Cardinality(ScatterCalls(c)) = 1

\* a clean complete run over two chunks, one of them with a second entry a
\* Worker has split off
C8_Witness ==
  /\ StreamComplete /\ CleanRun
  /\ Len(Chunks) = 2
  /\ workerCalls # {}
  /\ \A c \in ChunkIds : Cardinality(ScatterCalls(c)) = 1

\* ---- C9 -----------------------------------------------------------------
\* C9 as stated: for NodeIDs a < b, tokens(a).start < tokens(a).end <=
\* tokens(b).start as byte strings.
C9_OrderedByNodeID ==
  (tokOut # <<>> /\ tokA < tokB) =>
     /\ BytesLess(tokOut[1][1], tokOut[1][2])
     /\ BytesLessEq(tokOut[1][2], tokOut[2][1])

\* C9 as amended: for NodeIDs a < b, tokens(a).start < tokens(a).end; and
\* tokens(a).end <= tokens(b).start when a and b have as many decimal
\* digits or decimal(a) sorts before decimal(b) as a byte string; otherwise
\* the ranges lie the other way round, tokens(b).end <= tokens(a).start.
C9_OrderedByDecimalString ==
  (tokOut # <<>> /\ tokA < tokB) =>
     /\ BytesLess(tokOut[1][1], tokOut[1][2])
     /\ IF \/ Len(Decimal(tokA)) = Len(Decimal(tokB))
           \/ BytesLess(Decimal(tokA), Decimal(tokB))
          THEN BytesLessEq(tokOut[1][2], tokOut[2][1])
          ELSE BytesLessEq(tokOut[2][2], tokOut[1][1])

\* tokens derived for a < b of different lengths that do lie in order, the
\* shorter decimal being a prefix of the longer
C9_Witness ==
  /\ tokOut # <<>>
  /\ tokA = 1 /\ tokB = 10
  /\ BytesLessEq(tokOut[1][2], tokOut[2][1])

\* ---- C10 ----------------------------------------------------------------
\* C10: for distinct NodeIDs the start tokens differ, the half-open ranges
\* [start, end) do not overlap, and neither start token lies in the other
\* node's range.
C10_CollisionFree ==
  (tokOut # <<>> /\ tokA # tokB) =>
     /\ tokOut[1][1] # tokOut[2][1]
     /\ \/ BytesLessEq(tokOut[1][2], tokOut[2][1])
        \/ BytesLessEq(tokOut[2][2], tokOut[1][1])
     /\ ~(/\ BytesLessEq(tokOut[2][1], tokOut[1][1])
          /\ BytesLess(tokOut[1][1], tokOut[2][2]))
     /\ ~(/\ BytesLessEq(tokOut[1][1], tokOut[2][1])
          /\ BytesLess(tokOut[2][1], tokOut[1][2]))

\* tokens derived for 10 and 100, where one decimal string is a prefix of
\* the other
C10_Witness ==
  /\ tokOut # <<>>
  /\ tokA = 10 /\ tokB = 100
  /\ BytesLess(tokOut[1][1], tokOut[2][1])

\* ---- C11 ----------------------------------------------------------------
\* the last thing pushed by this step, when the step pushed a row
RowPushed ==
  /\ Len(output') = Len(output) + 1
  /\ output'[Len(output')].kind = "row"

\* a step of the Emitter keeps C11: the row it pushes carries the start
\* token of the NodeID its entry was paired with in the completion queue, a
\* token is derived for that NodeID only if none was derived before, no
\* NodeID has a token derived twice, and every NodeID in the cache maps to
\* its own start token and to nothing else
EmitterTokensCached ==
  /\ RowPushed =>
       LET node == Head(doneScatterCh.buf).node
       IN  /\ output'[Len(output')].routingDatum
                = routingDatumsForNode(node)[1]
           /\ derived' = IF \E i \in 1 .. Len(derived) : derived[i] = node
                            THEN derived
                            ELSE Append(derived, node)
  /\ \A i, j \in 1 .. Len(derived') : i < j => derived'[i] # derived'[j]
  /\ \A p \in routingDatumCache' :
       /\ p[2] = routingDatumsForNode(p[1])[1]
       /\ \A q \in routingDatumCache' : q[1] = p[1] => q = p

\* C11: within one run the Emitter derives the routing token at most once
\* per distinct NodeID, every pushed row carries the start token of the
\* NodeID its entry is paired with, and the cache never maps a NodeID to
\* another node's token.
C11_TokenOncePerNode == [][EmitterTokensCached]_vars

\* three rows are out for two distinct NodeIDs: one row was served from
\* the cache
C11_Witness ==
  /\ Len(derived) = 2
  /\ Cardinality(RowIdx) = 3
  /\ \E i, j \in RowIdx :
       i < j /\ output[i].routingDatum = output[j].routingDatum
\* ---- C12 ----------------------------------------------------------------
\* once the group has recorded its first error, and so cancelled the shared
\* context, a step issues no split or scatter call, hands over no chunk and
\* publishes no entry
NoWorkAfterCancel ==
  g.err # NoErr =>
     /\ dispatcherLog' = dispatcherLog
     /\ workerCalls' = workerCalls
     /\ Len(doneScatterCh'.buf) <= Len(doneScatterCh.buf)

\* C12: once the shared cancellation signal has fired after the first error
\* of the Dispatcher or a Worker, no task issues a further split or scatter
\* call, publishes a further chunk or publishes a further entry.
C12_NoWorkAfterCancel == [][NoWorkAfterCancel]_vars
\* ---- C13 ----------------------------------------------------------------
\* C13: cancellation, whether it follows a fatal error inside the pipeline
\* or comes from outside, is never itself the error reported downstream: no
\* error message pushed carries the context's cancellation error.
C13_CancellationNotReported ==
  \A i \in 1 .. Len(output) :
     output[i].kind = "meta" => output[i].Err # ctxErr
\* ---- C14 ----------------------------------------------------------------
AllReturned ==
  dispatcher.pc = "done" /\ \A w \in Workers : w.pc = "done"

\* C14: under fair scheduling every run terminates: the Dispatcher never
\* stays blocked on the work queue, the work queue is closed whenever the
\* Dispatcher has ended, the Dispatcher and both Workers return, the
\* completion queue is closed and the Emitter marks the stream complete.
C14_Terminates ==
  /\ [](dispatcher.pc = "send" => <>(dispatcher.pc # "send"))
  /\ [](dispatcher.pc = "done" => importSpanChunksCh.closed)
  /\ <>[](AllReturned /\ doneScatterCh.closed /\ StreamComplete)

\* a run that has ended after both a Worker's split and a serialization
\* failed
C14_Witness ==
  /\ AllReturned /\ doneScatterCh.closed /\ StreamComplete
  /\ emitter.broke
  /\ \E c \in workerCalls : c.err # NoErr
\* ---- C15 ----------------------------------------------------------------
\* C15: the completion queue never holds more entries than the total entry
\* count it was sized to, and whenever a Worker is about to publish an
\* entry there is room for it, whatever the Emitter does.
C15_PublishNeverBlocks ==
  /\ Len(doneScatterCh.buf) <= doneScatterCh.cap
  /\ doneScatterCh.cap = numEntries(Chunks)
  /\ \A w \in Workers :
       w.pc = "publish" => Len(doneScatterCh.buf) < doneScatterCh.cap

\* the Emitter has stopped with entries left in the queue, and a Worker is
\* about to publish one more
C15_Witness ==
  /\ StreamComplete
  /\ doneScatterCh.buf # <<>>
  /\ \E w \in Workers : w.pc = "publish"
\* ---- C16 ----------------------------------------------------------------
\* the keys of the entries published to the completion queue so far: those
\* pushed as rows, the one whose serialization failed, and those still in
\* the queue
PublishedKeys ==
  {RowKey(i) : i \in RowIdx}
    \cup {output[i].Err[2] :
            i \in {j \in MetaIdx : output[j].Err[1] = "marshal"}}
    \cup {doneScatterCh.buf[j].entry.Span.Key :
            j \in 1 .. Len(doneScatterCh.buf)}

\* a step publishes only an entry that was not published before, and pushes
\* only a row of an entry that has no row yet
DeliversOnce ==
  /\ Len(doneScatterCh'.buf) = Len(doneScatterCh.buf) + 1
       => doneScatterCh'.buf[Len(doneScatterCh'.buf)].entry.Span.Key
            \notin PublishedKeys
  /\ RowPushed =>
       \A i \in RowIdx :
          RowKey(i) # Unmarshal(output'[Len(output')].entryBytes).Span.Key

\* C16: in every run, aborted or not, each input entry is published to the
\* completion queue at most once and pushed downstream as a row at most
\* once.
C16_AtMostOnce == [][DeliversOnce]_vars

\* a run aborted by a failure has ended with a row for some entries only
C16_Witness ==
  /\ StreamComplete
  /\ SomeCallFailed \/ emitter.broke
  /\ RowIdx # {}
  /\ Cardinality(RowIdx) < numEntries(Chunks)
\* ---- C17 ----------------------------------------------------------------
\* how many Workers of the bag ws hold the chunk that starts at key k
Holders(ws, k) ==
  BagCardinality(
    [w \in {x \in BagToSet(ws) :
              /\ x.importSpanChunk.entries # <<>>
              /\ x.importSpanChunk.entries[1].Span.Key = k}
       |-> CopiesIn(w, ws)])

\* the step handed a chunk over (the last event of the Dispatcher's order)
HandedOver ==
  /\ Len(dispatcherLog') = Len(dispatcherLog) + 1
  /\ dispatcherLog'[Len(dispatcherLog')].op = "send"

\* the step published an entry to the completion queue
Published == Len(doneScatterCh'.buf) = Len(doneScatterCh.buf) + 1

\* a step keeps C17: a chunk handed over is held by exactly one Worker
\* afterwards and no chunk is ever held by two; an entry is published when
\* the entries before it in its chunk have been published and none of
\* those after it; a row is pushed when no later entry of its chunk has a
\* row
ChunkInOrder ==
  /\ HandedOver =>
       Holders(worker', dispatcherLog'[Len(dispatcherLog')].key) = 1
  /\ \A c \in ChunkIds : Holders(worker', LeadKey(c)) <= 1
  /\ Published =>
       LET k == doneScatterCh'.buf[Len(doneScatterCh'.buf)].entry.Span.Key
       IN  \A k2 \in KeysOfChunk(ChunkOfKey(k)) :
              /\ k2 < k => k2 \in PublishedKeys
              /\ k2 > k => k2 \notin PublishedKeys
  /\ RowPushed =>
       LET k == Unmarshal(output'[Len(output')].entryBytes).Span.Key
       IN  \A i \in RowIdx :
              ChunkOfKey(RowKey(i)) = ChunkOfKey(k) => RowKey(i) < k

\* C17: every chunk handed over is received by exactly one Worker, which
\* publishes its entries in input order, so that the entries of one chunk
\* are in the completion queue and among the rows in input order.
C17_ChunkInOrder == [][ChunkInOrder]_vars

\* the row of another chunk lies between the rows of the two entries of a
\* chunk
C17_Witness ==
  \E i, j, k \in RowIdx :
     /\ i < j /\ j < k
     /\ ChunkOfKey(RowKey(i)) = ChunkOfKey(RowKey(k))
     /\ ChunkOfKey(RowKey(i)) # ChunkOfKey(RowKey(j))
\* ---- C18 ----------------------------------------------------------------
\* a split at key k has completed successfully, by the Dispatcher or by a
\* Worker
SplitDoneAt(k) ==
  \/ \E p \in LogIdx : /\ dispatcherLog[p].op = "split"
                        /\ dispatcherLog[p].key = k
                        /\ dispatcherLog[p].err = NoErr
  \/ \E c \in workerCalls : c.op = "split" /\ c.key = k /\ c.err = NoErr

\* the start key of the entry that follows the entry of key k in the input
NextEntryKey(k) ==
  CHOOSE k2 \in EntryKeys :
     k2 > k /\ \A k3 \in EntryKeys : k3 > k => k2 <= k3

\* a step that publishes an entry finds both boundaries of the entry split
SplitBeforePublish ==
  Published =>
     LET k == doneScatterCh'.buf[Len(doneScatterCh'.buf)].entry.Span.Key
     IN  /\ k # LeadKey(1) => SplitDoneAt(k)
         /\ (\E k2 \in EntryKeys : k2 > k) => SplitDoneAt(NextEntryKey(k))

\* C18: whenever an entry is published to the completion queue, a split
\* has completed successfully at its own start key (unless it is the first
\* entry of the first chunk) and at the start key of the entry after it in
\* the input (unless it is the last entry of the last chunk).
C18_SplitBeforePublish == [][SplitBeforePublish]_vars

\* the live preparer: an entry is published whose own boundary was split
\* by a Worker and whose next boundary was split by the Dispatcher
C18_Witness ==
  /\ scatterer.kind = "db"
  /\ \E k \in PublishedKeys :
       /\ k # LeadKey(ChunkOfKey(k))
       /\ ChunkOfKey(k) < Len(Chunks)
       /\ NextEntryKey(k) = LeadKey(ChunkOfKey(k) + 1)
\* ---- C19 ----------------------------------------------------------------
\* the step in which Run leaves its loop and reads err (line 272) is taken
\* when the goroutine of Run has stored its result and closed the
\* completion queue
ReadsErrAfterClose ==
  (emitter.pc = "loop" /\ emitter'.pc = "done") => bgPc = "closed"

\* C19: the Emitter reads the background pipeline's error result only after
\* the background pipeline has finished and closed the completion queue, in
\* every run, also when the loop is left on a serialization failure.
C19_ReadsErrAfterClose == [][ReadsErrAfterClose]_vars
\* ---- C20 ----------------------------------------------------------------
\* C20: no task publishes to a closed queue: the work queue is closed only
\* once the Dispatcher, its only sender, has returned, so never while the
\* Dispatcher is about to publish; the completion queue is closed only once
\* the Dispatcher and both Workers have returned, so never while a Worker
\* is about to publish.
C20_NoSendOnClosed ==
  /\ importSpanChunksCh.closed <=> dispatcher.pc = "done"
  /\ dispatcher.pc = "send" => ~importSpanChunksCh.closed
  /\ doneScatterCh.closed => AllReturned
  /\ \A w \in Workers : w.pc = "publish" => ~doneScatterCh.closed

\* both queues are closed at the end of a run in which a task failed and
\* another returned on cancellation
C20_Witness ==
  /\ importSpanChunksCh.closed /\ doneScatterCh.closed
  /\ Len(returned) >= 2
  /\ returned[2] = ctxErr
====
